---- MODULE Spec2Model ----
(***************************************************************************)
(* Model of the in-memory video store of src/src/index.ts: the validator   *)
(* validateVideoInput and the six express route handlers over the          *)
(* module-level object `videos`.                                           *)
(*                                                                         *)
(* `videos` is a plain JavaScript object literal, so every property read   *)
(* on it, on a request body and on a record goes through Object.prototype. *)
(* The model keeps the part of Object.prototype the handlers can write to  *)
(* (variable proto) because PUT /videos/__proto__ reaches it.              *)
(***************************************************************************)
EXTENDS Integers, Sequences, FiniteSets, TLC

VARIABLES
  videos,   \* own properties of `videos`, in insertion order: a sequence of Video
  proto,    \* own properties the handlers have added to Object.prototype
  req,      \* the request just handled: [op, id, body], or Idle
  res,      \* its response: [status, errors, body]
  prev      \* videos and proto as they were when that request arrived

vars == <<videos, proto, req, res, prev>>

----------------------------------------------------------------------------
(* JavaScript values as they arrive from JSON.parse.                       *)

Undefined == [t |-> "undefined", s |-> "", a |-> <<>>]
Str(x) == [t |-> "string", s |-> x, a |-> <<>>]
Num(x) == [t |-> "number", s |-> x, a |-> <<>>]
Arr(x) == [t |-> "array", s |-> "", a |-> x]
\* A JSON object used as an array element; s names the own key it carries.
Obj(x) == [t |-> "object", s |-> x, a |-> <<>>]

\* typeof v === 'string'
IsString(v) == v.t = "string"

\* Array.isArray(v)
IsArray(v) == v.t = "array"

\* String.prototype.trim on the strings of the model
Trim(x) == IF x \in {"", " ", "  "} THEN "" ELSE x

\* Date.parse: the time value in days since the epoch, or NaN
DateParse(x) ==
  CASE x \in {"2023-01-01", "2023-01-01T00:00:00.000Z"} -> [nan |-> FALSE, day |-> 19358]
    [] x \in {"2024-02-02", "2024-02-02T00:00:00.000Z"} -> [nan |-> FALSE, day |-> 19755]
    [] OTHER -> [nan |-> TRUE, day |-> 0]

\* new Date(x).toISOString() for a string x that Date.parse accepts
ToISOString(x) ==
  CASE DateParse(x).day = 19358 -> "2023-01-01T00:00:00.000Z"
    [] DateParse(x).day = 19755 -> "2024-02-02T00:00:00.000Z"
    [] OTHER -> "RangeError"

\* The template literal `${v}`: ToString(v). An object whose own "toString" is
\* not callable has no primitive value and ToString throws a TypeError.
TemplateThrows(v) == v.t = "object" /\ v.s = "toString"
TemplateString(v) == IF v.t = "object" THEN "[object Object]" ELSE v.s

----------------------------------------------------------------------------
(* The vocabulary and the keys of a Video.                                 *)

availableResolutions ==
  {"P144", "P240", "P360", "P480", "P720", "P1080", "P1440", "P2160"}

FieldKeys == {"title", "description", "date", "availableResolutions"}

\* generateId: a string of up to nine base-36 digits drawn at random, never
\* compared with the keys already in `videos`. Two of its values; neither is
\* an array index, so Object.values lists them in insertion order.
generateId == {"a", "b"}

\* Names every object inherits from Object.prototype (a function each):
\* toString stands for constructor, valueOf, hasOwnProperty and the rest.
BuiltinNames == {"toString"}

----------------------------------------------------------------------------
(* Property access through the prototype chain.                            *)

NoProps == [k \in {} |-> Undefined]

\* `key in input` for an object input
HasProp(key, input, pr) == key \in DOMAIN input.props \/ key \in DOMAIN pr

\* input[key] for an object input
GetProp(input, key, pr) ==
  IF key \in DOMAIN input.props THEN input.props[key]
  ELSE IF key \in DOMAIN pr THEN pr[key]
  ELSE Undefined

----------------------------------------------------------------------------
(* validateVideoInput. Object.prototype as it is when the validator runs   *)
(* is its third argument: `in` and every property read consult it.         *)

ErrTitle == [msg |-> "Invalid or missing title", arg |-> ""]
ErrDescription == [msg |-> "Invalid description", arg |-> ""]
ErrDate == [msg |-> "Invalid or missing date", arg |-> ""]
ErrNotArray == [msg |-> "availableResolutions must be an array", arg |-> ""]
ErrMissingRes == [msg |-> "Missing availableResolutions", arg |-> ""]
ErrBadRes(x) == [msg |-> "Invalid availableResolutions value", arg |-> x]

\* Includes with the membership test left out: any string passes
Includes_AnyString(el) == IsString(el)

\* availableResolutions.includes(el)
Includes(el) == IsString(el) /\ el.s \in availableResolutions

\* the for-of loop of lines 51-55
RECURSIVE ResLoop(_)
ResLoop(a) ==
  IF a = <<>> THEN <<>>
  ELSE IF Includes(Head(a)) THEN ResLoop(Tail(a))
  ELSE <<ErrBadRes(TemplateString(Head(a)))>> \o ResLoop(Tail(a))

\* the loop reaches an element it cannot put into the message
ResLoopThrows(a) ==
  \E i \in DOMAIN a : ~Includes(a[i]) /\ TemplateThrows(a[i])

TitleErrors(input, isUpdate, pr) ==
  IF ~isUpdate \/ HasProp("title", input, pr)
  THEN LET v == GetProp(input, "title", pr)
       IN IF ~IsString(v) \/ Trim(v.s) = "" THEN <<ErrTitle>> ELSE <<>>
  ELSE <<>>

DescriptionErrors(input, pr) ==
  IF HasProp("description", input, pr)
     /\ ~IsString(GetProp(input, "description", pr))
  THEN <<ErrDescription>> ELSE <<>>

DateErrors(input, isUpdate, pr) ==
  IF ~isUpdate \/ HasProp("date", input, pr)
  THEN LET v == GetProp(input, "date", pr)
       IN IF ~IsString(v) \/ DateParse(v.s).nan THEN <<ErrDate>> ELSE <<>>
  ELSE <<>>

ResolutionsErrors(input, isUpdate, pr) ==
  IF HasProp("availableResolutions", input, pr)
  THEN LET v == GetProp(input, "availableResolutions", pr)
       IN IF ~IsArray(v) THEN <<ErrNotArray>> ELSE ResLoop(v.a)
  ELSE IF ~isUpdate THEN <<ErrMissingRes>> ELSE <<>>

\* The validator raises a TypeError instead of returning:
\*   undefined/null: at input.title (create) or 'title' in input (update);
\*   any other primitive: at 'description' in input at the latest;
\*   an object: when the for-of loop formats an element ToString rejects.
ValidatorThrows(input, isUpdate, pr) ==
  IF input.t # "object" THEN TRUE
  ELSE /\ HasProp("availableResolutions", input, pr)
       /\ IsArray(GetProp(input, "availableResolutions", pr))
       /\ ResLoopThrows(GetProp(input, "availableResolutions", pr).a)

validateVideoInput(input, isUpdate, pr) ==
  IF ValidatorThrows(input, isUpdate, pr)
  THEN [threw |-> TRUE, valid |-> FALSE, errors |-> <<>>]
  ELSE LET errors == TitleErrors(input, isUpdate, pr)
                     \o DescriptionErrors(input, pr)
                     \o DateErrors(input, isUpdate, pr)
                     \o ResolutionsErrors(input, isUpdate, pr)
       IN [threw |-> FALSE, valid |-> Len(errors) = 0, errors |-> errors]

----------------------------------------------------------------------------
(* The store: `videos` and what a property read on it finds.               *)

OwnKeys(vs) == {vs[i].id : i \in DOMAIN vs}

IndexOf(vs, id) == CHOOSE i \in DOMAIN vs : vs[i].id = id

\* videos[id]: an own record, else what Object.prototype has under that name
Lookup(vs, id) ==
  IF id \in OwnKeys(vs) THEN "video"
  ELSE IF id = "__proto__" THEN "prototype"
  ELSE IF id \in BuiltinNames THEN "function"
  ELSE "undefined"

\* videos[id] = v: an existing key keeps its place, a new key goes last
SetKey(vs, id, v) ==
  IF id \in OwnKeys(vs) THEN [vs EXCEPT ![IndexOf(vs, id)] = v]
  ELSE Append(vs, v)

\* delete videos[id]: nothing happens when id is not an own key
DeleteKey(vs, id) ==
  IF id \in OwnKeys(vs)
  THEN SubSeq(vs, 1, IndexOf(vs, id) - 1) \o SubSeq(vs, IndexOf(vs, id) + 1, Len(vs))
  ELSE vs

Response(status, errors, body) ==
  [status |-> status, errors |-> errors, body |-> body]

Outcome(vs, pr, r) == [videos |-> vs, proto |-> pr, res |-> r]

----------------------------------------------------------------------------
(* The route handlers, each as a function of the state and the request.    *)

\* app.get('/videos'): Object.values(videos)
GetVideos(vs, pr) == Outcome(vs, pr, Response(200, <<>>, vs))

\* app.get('/videos/:id')
GetVideoById(vs, pr, id) ==
  CASE Lookup(vs, id) = "video" ->
         Outcome(vs, pr, Response(200, <<>>, <<vs[IndexOf(vs, id)]>>))
    [] Lookup(vs, id) = "prototype" -> Outcome(vs, pr, Response(200, <<>>, <<pr>>))
    [] Lookup(vs, id) = "function" -> Outcome(vs, pr, Response(200, <<>>, <<>>))
    [] OTHER -> Outcome(vs, pr, Response(404, <<>>, <<>>))

\* NewVideo with body.date stored as received
NewVideo_RawDate(id, body, pr) ==
  [id |-> id,
   title |-> GetProp(body, "title", pr),
   description |-> GetProp(body, "description", pr),
   date |-> GetProp(body, "date", pr),
   availableResolutions |-> GetProp(body, "availableResolutions", pr)]

\* lines 89-95: the record built from a validated body
NewVideo(id, body, pr) ==
  [id |-> id,
   title |-> GetProp(body, "title", pr),
   description |-> GetProp(body, "description", pr),
   date |-> Str(ToISOString(GetProp(body, "date", pr).s)),
   availableResolutions |-> GetProp(body, "availableResolutions", pr)]

\* app.post('/videos') when generateId() returns id
PostVideos(vs, pr, body, id) ==
  LET v == validateVideoInput(body, FALSE, pr)
  IN IF v.threw THEN Outcome(vs, pr, Response(500, <<>>, <<>>))
     ELSE IF ~v.valid THEN Outcome(vs, pr, Response(400, v.errors, <<>>))
     ELSE Outcome(SetKey(vs, id, NewVideo(id, body, pr)), pr,
                  Response(201, <<>>, <<NewVideo(id, body, pr)>>))

\* the value lines 114-125 assign to existingVideo[key]
Assigned(key, body, pr) ==
  IF key = "date" THEN Str(ToISOString(GetProp(body, "date", pr).s))
  ELSE GetProp(body, key, pr)

\* lines 114-125 on a record of the store
UpdateFields(video, body, pr) ==
  [k \in DOMAIN video |->
     IF k \in FieldKeys /\ HasProp(k, body, pr) THEN Assigned(k, body, pr)
     ELSE video[k]]

\* lines 114-125 when existingVideo is Object.prototype itself
UpdatePrototype(body, pr) ==
  [k \in DOMAIN pr \cup (FieldKeys \cap DOMAIN body.props) |->
     IF HasProp(k, body, pr) THEN Assigned(k, body, pr) ELSE pr[k]]

\* PutVideoById with the fields assigned before the validation result is
\* looked at: a rejected update keeps the string fields it carried
PutVideoById_AssignFirst(vs, pr, id, body) ==
  LET target == Lookup(vs, id)
      v == validateVideoInput(body, TRUE, pr)
      early(video) ==
        [k \in DOMAIN video |->
           IF k \in {"title", "description"} /\ HasProp(k, body, pr)
              /\ IsString(GetProp(body, k, pr))
           THEN GetProp(body, k, pr) ELSE video[k]]
  IN IF target = "undefined" THEN Outcome(vs, pr, Response(404, <<>>, <<>>))
     ELSE IF v.threw THEN Outcome(vs, pr, Response(500, <<>>, <<>>))
     ELSE IF ~v.valid
     THEN IF target = "video"
          THEN Outcome([vs EXCEPT ![IndexOf(vs, id)] = early(vs[IndexOf(vs, id)])],
                       pr, Response(400, v.errors, <<>>))
          ELSE Outcome(vs, pr, Response(400, v.errors, <<>>))
     ELSE CASE target = "video" ->
                 LET i == IndexOf(vs, id)
                     u == UpdateFields(vs[i], body, pr)
                 IN Outcome([vs EXCEPT ![i] = u], pr, Response(200, <<>>, <<u>>))
            [] target = "prototype" ->
                 Outcome(vs, UpdatePrototype(body, pr),
                         Response(200, <<>>, <<UpdatePrototype(body, pr)>>))
            [] OTHER -> Outcome(vs, pr, Response(200, <<>>, <<>>))

\* app.put('/videos/:id')
PutVideoById(vs, pr, id, body) ==
  LET target == Lookup(vs, id)
      v == validateVideoInput(body, TRUE, pr)
  IN IF target = "undefined" THEN Outcome(vs, pr, Response(404, <<>>, <<>>))
     ELSE IF v.threw THEN Outcome(vs, pr, Response(500, <<>>, <<>>))
     ELSE IF ~v.valid THEN Outcome(vs, pr, Response(400, v.errors, <<>>))
     ELSE CASE target = "video" ->
                 LET i == IndexOf(vs, id)
                     u == UpdateFields(vs[i], body, pr)
                 IN Outcome([vs EXCEPT ![i] = u], pr, Response(200, <<>>, <<u>>))
            [] target = "prototype" ->
                 Outcome(vs, UpdatePrototype(body, pr),
                         Response(200, <<>>, <<UpdatePrototype(body, pr)>>))
            [] OTHER -> Outcome(vs, pr, Response(200, <<>>, <<>>))

\* app.delete('/videos/:id')
DeleteVideoById(vs, pr, id) ==
  IF Lookup(vs, id) # "undefined"
  THEN Outcome(DeleteKey(vs, id), pr, Response(204, <<>>, <<>>))
  ELSE Outcome(vs, pr, Response(404, <<>>, <<>>))

\* the loop leaving after its first key
DeleteEach_FirstOnly(vs) == IF vs = <<>> THEN vs ELSE DeleteKey(vs, vs[1].id)

\* the for-in loop of lines 142-144, one own key at a time
RECURSIVE DeleteEach(_)
DeleteEach(vs) == IF vs = <<>> THEN vs ELSE DeleteEach(DeleteKey(vs, vs[1].id))

\* app.delete('/testing/all-data')
DeleteAllData(vs, pr) == Outcome(DeleteEach(vs), pr, Response(204, <<>>, <<>>))

----------------------------------------------------------------------------
(* The requests the model sends.                                           *)

\* the longest availableResolutions array among the generated bodies
MaxRes == 2

ObjBody(props) == [t |-> "object", props |-> props]
Primitive(t) == [t |-> t, props |-> NoProps]
NoBody == Primitive("none")

RECURSIVE SeqsUpTo(_, _)
SeqsUpTo(S, n) ==
  IF n = 0 THEN {<<>>}
  ELSE LET shorter == SeqsUpTo(S, n - 1)
       IN shorter \cup {Append(q, x) : q \in {r \in shorter : Len(r) = n - 1}, x \in S}

ResArrays == {Arr(q) : q \in SeqsUpTo({Str("P720"), Str("P9999")}, MaxRes)}

FullA(r) ==
  ObjBody(("title" :> Str("A")) @@ ("description" :> Str("B"))
          @@ ("date" :> Str("2023-01-01")) @@ ("availableResolutions" :> r))

FullC ==
  ObjBody(("title" :> Str("C")) @@ ("date" :> Str("2024-02-02"))
          @@ ("availableResolutions" :> Arr(<<>>)))

Without(body, key) ==
  ObjBody([k \in DOMAIN body.props \ {key} |-> body.props[k]])

Only(key, v) == ObjBody(key :> v)

TitleOnly == Only("title", Str("C"))

CreateBodies ==
  {FullA(r) : r \in ResArrays}
  \cup {FullC, ObjBody(NoProps), Primitive("undefined"), Primitive("number")}
  \cup {Without(FullA(Arr(<<Str("P720")>>)), k) : k \in {"title", "date", "availableResolutions"}}
  \cup {FullA(Arr(<<Str("P9999"), Str("P9998")>>)),
        FullA(Arr(<<Obj("toString")>>)),
        FullA(Str("P720")),
        ObjBody(("title" :> Str(" ")) @@ ("description" :> Num("7"))
                @@ ("date" :> Str("nope"))
                @@ ("availableResolutions" :> Arr(<<Str("P9999"), Num("7")>>)))}

UpdateBodies ==
  {Only("availableResolutions", r) : r \in ResArrays}
  \cup {TitleOnly, Only("title", Str(" ")), Only("title", Num("7")),
        Only("description", Str("")), Only("description", Num("7")),
        Only("date", Str("2024-02-02")), Only("date", Str("nope")),
        Only("availableResolutions", Str("P720")),
        Only("availableResolutions", Arr(<<Obj("toString")>>)),
        ObjBody(("title" :> Str("C")) @@ ("description" :> Num("7"))),
        ObjBody(("id" :> Str("b")) @@ ("title" :> Str("A"))),
        FullC, ObjBody(NoProps), Primitive("undefined")}

\* bodies sent to PUT /videos/__proto__: one writes a single key of
\* Object.prototype, the other every required key
PrototypeBodies == {TitleOnly, FullC}

\* req.params.id: the generated ids (stored or not), and names `videos`
\* inherits
PathIds == generateId \cup {"__proto__"} \cup BuiltinNames

PutRequests ==
  (generateId \X UpdateBodies) \cup ({"__proto__"} \X PrototypeBodies)
  \cup (BuiltinNames \X {TitleOnly})

Request(op, id, body) == [op |-> op, id |-> id, body |-> body]

----------------------------------------------------------------------------
(* The state machine: one action per route.                                *)

Idle == Request("idle", "", NoBody)
NoResponse == Response(0, <<>>, <<>>)
NoPrev == [videos |-> <<>>, proto |-> NoProps]

Init ==
  /\ videos = <<>>
  /\ proto = NoProps
  /\ req = Idle
  /\ res = NoResponse
  /\ prev = NoPrev

\* A handler runs to completion on one request at a time: it starts when no
\* request is being handled, and leaves the request in req, its response in
\* res and the state it found in prev.

Post ==
  \E body \in CreateBodies, id \in generateId :
    LET out == PostVideos(videos, proto, body, id)
    IN /\ req = Idle
       /\ videos' = out.videos
       /\ proto' = out.proto
       /\ res' = out.res
       /\ req' = Request("post", id, body)
       /\ prev' = [videos |-> videos, proto |-> proto]

Put ==
  \E p \in PutRequests :
    LET out == PutVideoById(videos, proto, p[1], p[2])
    IN /\ req = Idle
       /\ videos' = out.videos
       /\ proto' = out.proto
       /\ res' = out.res
       /\ req' = Request("put", p[1], p[2])
       /\ prev' = [videos |-> videos, proto |-> proto]

Delete ==
  \E id \in PathIds :
    LET out == DeleteVideoById(videos, proto, id)
    IN /\ req = Idle
       /\ videos' = out.videos
       /\ proto' = out.proto
       /\ res' = out.res
       /\ req' = Request("delete", id, NoBody)
       /\ prev' = [videos |-> videos, proto |-> proto]

Clear ==
  LET out == DeleteAllData(videos, proto)
  IN /\ req = Idle
     /\ videos' = out.videos
     /\ proto' = out.proto
     /\ res' = out.res
     /\ req' = Request("clear", "", NoBody)
     /\ prev' = [videos |-> videos, proto |-> proto]

Get ==
  \E id \in PathIds :
    LET out == GetVideoById(videos, proto, id)
    IN /\ req = Idle
       /\ videos' = out.videos
       /\ proto' = out.proto
       /\ res' = out.res
       /\ req' = Request("get", id, NoBody)
       /\ prev' = [videos |-> videos, proto |-> proto]

List ==
  LET out == GetVideos(videos, proto)
  IN /\ req = Idle
     /\ videos' = out.videos
     /\ proto' = out.proto
     /\ res' = out.res
     /\ req' = Request("list", "", NoBody)
     /\ prev' = [videos |-> videos, proto |-> proto]

\* The response has gone out; the server waits for the next request.
Finish ==
  /\ req # Idle
  /\ req' = Idle
  /\ res' = NoResponse
  /\ prev' = NoPrev
  /\ UNCHANGED <<videos, proto>>

Next == Post \/ Put \/ Delete \/ Clear \/ Get \/ List \/ Finish

Spec == Init /\ [][Next]_vars

----------------------------------------------------------------------------
(* Vocabulary of the properties below.                                     *)

Handled(op) == req.op = op
Own(key) == req.body.t = "object" /\ key \in DOMAIN req.body.props
WasStored(id) == id \in OwnKeys(prev.videos)
Stored(vs, id) == vs[IndexOf(vs, id)]
Records(vs) == {vs[i] : i \in DOMAIN vs}
Others(vs, id) == {v \in Records(vs) : v.id # id}

\* the canonical ISO-8601 form of the date strings the requests carry
CanonicalDates == {"2023-01-01T00:00:00.000Z", "2024-02-02T00:00:00.000Z"}
CanonicalForm(x) ==
  CASE x = "2023-01-01" -> "2023-01-01T00:00:00.000Z"
    [] x = "2024-02-02" -> "2024-02-02T00:00:00.000Z"
    [] OTHER -> x

\* the eight tags of the fixed vocabulary, as JSON strings
Vocabulary ==
  {Str(x) : x \in {"P144", "P240", "P360", "P480", "P720", "P1080", "P1440", "P2160"}}

----------------------------------------------------------------------------
\* C1: the id a successful create returns is the id of no record that was in
\* the store before it, so every earlier record is still there and the store
\* has grown by exactly one record.
C1_CreateIdIsFresh ==
  (Handled("post") /\ res.status = 201) =>
    /\ ~WasStored(res.body[1].id)
    /\ Records(prev.videos) \subseteq Records(videos)
    /\ Len(videos) = Len(prev.videos) + 1

\* C2: a create whose input fails validation leaves the store as it was, and
\* every create input object that lacks title, date or availableResolutions
\* fails validation and creates no record.
C2_InvalidCreateRejected ==
  Handled("post") =>
    /\ (res.status = 400 => videos = prev.videos)
    /\ (req.body.t = "object"
        /\ (~Own("title") \/ ~Own("date") \/ ~Own("availableResolutions")))
       => (res.status = 400 /\ res.errors # <<>> /\ videos = prev.videos)

\* C3: an update of a stored id whose input fails validation changes no
\* record: neither the target nor any other.
C3_InvalidUpdateAppliesNothing ==
  (Handled("put") /\ WasStored(req.id) /\ res.status = 400) =>
    /\ videos = prev.videos
    /\ res.errors # <<>>

\* an update rejected although one of its fields is valid and would have
\* changed the stored title
C3_Witness ==
  /\ Handled("put") /\ WasStored(req.id) /\ res.status = 400
  /\ Own("title") /\ Own("description")
  /\ req.body.props["title"] = Str("C")
  /\ Stored(prev.videos, req.id).title = Str("A")

\* C4: every record of the store has an availableResolutions array whose
\* elements all belong to the vocabulary.
C4_ResolutionsInVocabulary ==
  \A v \in Records(videos) :
    /\ IsArray(v.availableResolutions)
    /\ \A i \in DOMAIN v.availableResolutions.a :
         v.availableResolutions.a[i] \in Vocabulary

\* an update has just replaced a record's resolutions by a non-empty array
C4_Witness ==
  /\ Handled("put") /\ WasStored(req.id) /\ res.status = 200
  /\ Own("availableResolutions")
  /\ Stored(videos, req.id).availableResolutions.a # <<>>
  /\ Stored(prev.videos, req.id).availableResolutions.a = <<>>

\* C5: a get after a successful create (update) that carried date d returns
\* the canonical form of d, and no record ever holds a date that is not in
\* canonical form.
C5_DateIsNormalized ==
  /\ \A v \in Records(videos) : v.date.t = "string" /\ v.date.s \in CanonicalDates
  /\ (Handled("post") /\ res.status = 201 /\ Own("date")) =>
       LET got == GetVideoById(videos, proto, res.body[1].id).res
       IN /\ got.status = 200
          /\ got.body[1].date = Str(CanonicalForm(req.body.props["date"].s))
  /\ (Handled("put") /\ WasStored(req.id) /\ res.status = 200 /\ Own("date")) =>
       LET got == GetVideoById(videos, proto, req.id).res
       IN /\ got.status = 200
          /\ got.body[1].date = Str(CanonicalForm(req.body.props["date"].s))

\* a record created from the raw date "2023-01-01"
C5_Witness ==
  /\ Handled("post") /\ res.status = 201 /\ Own("date")
  /\ req.body.props["date"] = Str("2023-01-01")
  /\ Stored(videos, res.body[1].id).date = Str("2023-01-01T00:00:00.000Z")

\* the value an update with an own key leaves in the record
C6_Written(key) ==
  IF key = "date" THEN Str(CanonicalForm(req.body.props["date"].s))
  ELSE req.body.props[key]

\* C6: a successful update of a stored id overwrites exactly the fields
\* whose keys the input has, keeps every other field and the id, and leaves
\* all other records unchanged.
C6_UpdateTouchesOnlyPresentKeys ==
  (Handled("put") /\ WasStored(req.id) /\ res.status = 200) =>
    LET old == Stored(prev.videos, req.id)
        new == Stored(videos, req.id)
    IN /\ OwnKeys(videos) = OwnKeys(prev.videos)
       /\ new.id = old.id
       /\ \A k \in FieldKeys :
            new[k] = IF Own(k) THEN C6_Written(k) ELSE old[k]
       /\ Others(videos, req.id) = Others(prev.videos, req.id)

\* C7: delete of an id that is not in the store answers NotFound and changes
\* nothing; delete of a stored id succeeds and removes exactly that record.
C7_DeleteOutcome ==
  Handled("delete") =>
    IF WasStored(req.id)
    THEN /\ res.status = 204
         /\ Records(videos) = Others(prev.videos, req.id)
    ELSE /\ res.status = 404
         /\ videos = prev.videos

\* C8: clear-all succeeds and leaves the store empty, a second clear-all
\* right after it does the same, and a list then returns the empty sequence.
C8_ClearAllIdempotent ==
  Handled("clear") =>
    /\ res.status = 204
    /\ videos = <<>>
    /\ DeleteAllData(videos, proto).res.status = 204
    /\ DeleteAllData(videos, proto).videos = <<>>
    /\ GetVideos(DeleteAllData(videos, proto).videos, proto).res.body = <<>>

\* a clear-all that found two records
C8_Witness ==
  /\ Handled("clear") /\ Len(prev.videos) = 2 /\ videos = <<>>

----------------------------------------------------------------------------
(* What the validator is to report for the input object of the request     *)
(* handled last, read off the input's own keys.                            *)

\* the validator ran on the request: every create, and every update that
\* found something under its id
Validated ==
  \/ Handled("post")
  \/ Handled("put") /\ Lookup(prev.videos, req.id) # "undefined"

C9_Required(key) == Handled("post") \/ Own(key)
C9_Value(key) == IF Own(key) THEN req.body.props[key] ELSE Undefined
C9_NotInVocabulary(el) == el \notin Vocabulary

C9_TitleErrors ==
  IF C9_Required("title")
     /\ (C9_Value("title").t # "string" \/ C9_Value("title").s \in {"", " "})
  THEN <<ErrTitle>> ELSE <<>>

C9_DescriptionErrors ==
  IF Own("description") /\ C9_Value("description").t # "string"
  THEN <<ErrDescription>> ELSE <<>>

C9_DateErrors ==
  IF C9_Required("date")
     /\ (C9_Value("date").t # "string"
         \/ C9_Value("date").s \notin {"2023-01-01", "2024-02-02"} \cup CanonicalDates)
  THEN <<ErrDate>> ELSE <<>>

C9_ResolutionsErrors ==
  IF ~Own("availableResolutions")
  THEN IF Handled("post") THEN <<ErrMissingRes>> ELSE <<>>
  ELSE IF C9_Value("availableResolutions").t # "array" THEN <<ErrNotArray>>
  ELSE LET bad == SelectSeq(C9_Value("availableResolutions").a, C9_NotInVocabulary)
       IN [i \in 1..Len(bad) |-> ErrBadRes(bad[i].s)]

C9_Expected ==
  C9_TitleErrors \o C9_DescriptionErrors \o C9_DateErrors \o C9_ResolutionsErrors

\* C9: for every input object, in both modes, the validator returns the
\* errors of all four checks in the order title, description, date,
\* availableResolutions, one per failed check and one per element outside
\* the vocabulary, and the input is valid exactly when there is none.
C9_AllErrorsInOrder ==
  (Validated /\ req.body.t = "object") =>
    /\ res.status \in {200, 201, 400}
    /\ res.errors = C9_Expected
    /\ (res.status = 400) = (C9_Expected # <<>>)

\* C10: the validator returns a result for every candidate input, an input
\* that is no object and an input with fields of the wrong type included:
\* no request it runs on ends in an uncaught exception.
C10_ValidatorNeverThrows ==
  Validated => res.status \in {200, 201, 400}

====
